---- MODULE Spec2Model ----
(***************************************************************************)
(* Sentiment scoring, classification and summary stage of the social-media *)
(* sentiment pipeline (src/src/sentiment_analyzer.py), with the text        *)
(* cleaning that feeds it (src/src/text_preprocessor.py) and the consumers  *)
(* of a summary (src/src/report_generator.py, src/main.py); the           *)
(* collection of the data (src/src/data_collector.py) and the stages of   *)
(* run_complete_analysis (src/main.py), a file being the name it is       *)
(* written under.                                                          *)
(*                                                                         *)
(* Scores are kept in hundredths: polarity 1.0 is 100, the lexicon bump    *)
(* 0.3 is 30 and the default threshold 0.1 is 10.                          *)
(*                                                                         *)
(* A text is a record: kind "None" and kind "NaN" are the two missing      *)
(* values, kind "str" is a string given by the words str.split() yields    *)
(* and by blank, which says that the string holds whitespace only          *)
(* (non-empty, no words).  The empty string has no words and is not blank. *)
(* Kind "int" and kind "list" are texts that are not strings.              *)
(*                                                                         *)
(* TextBlob and VADER are libraries: what they return for a text is an     *)
(* input of the call (blob, scores), drawn from the ranges they document.  *)
(***************************************************************************)
EXTENDS Integers, Sequences, FiniteSets, TLC

VARIABLES
    pc,               \* "import": module not loaded; "idle"; "done": a call returned
    VADER_AVAILABLE,  \* module global: "unbound", "True" or "False"
    lexiconOnDisk,    \* the nltk resource sentiment/vader_lexicon can be loaded
    downloads,        \* number of nltk.download calls made by the process
    stdout,           \* number of "VADER nao disponivel" lines printed
    vader_analyzer,   \* self.vader_analyzer: "unbound", "None" or "SIA"
    positive_words,   \* self.positive_words
    negative_words,   \* self.negative_words
    call,             \* the call in progress or just returned: its name and arguments
    ret               \* what it returned: the exception raised, the value, the library calls made

vars == <<pc, VADER_AVAILABLE, lexiconOnDisk, downloads, stdout, vader_analyzer,
          positive_words, negative_words, call, ret>>

process == <<VADER_AVAILABLE, lexiconOnDisk, downloads, stdout>>
self == <<vader_analyzer, positive_words, negative_words>>

-----------------------------------------------------------------------------
(* Bounds *)

MaxWords == 2
MaxRows == 2
MaxLabel == 2

-----------------------------------------------------------------------------
(* Texts *)

Vocabulary == {"Bom", "ruim", "produto", "bom!"}

\* str.lower, on the words that have an upper-case letter
lower(w) ==
    CASE w = "Bom" -> "bom"
      [] w = "Adorei" -> "adorei"
      [] w = "Produto" -> "produto"
      [] w = "O" -> "o"
      [] w = "iPhone!" -> "iphone!"
      [] w = "iPhone" -> "iphone"
      [] w = "A" -> "a"
      [] w = "Não" -> "não"
      [] w = "Design" -> "design"
      [] OTHER -> w

WordLists == UNION {[1..n -> Vocabulary] : n \in 0..MaxWords}

None == [kind |-> "None", blank |-> FALSE, words |-> <<>>]
NaN == [kind |-> "NaN", blank |-> FALSE, words |-> <<>>]
Str(ws) == [kind |-> "str", blank |-> FALSE, words |-> ws]
Blank == [kind |-> "str", blank |-> TRUE, words |-> <<>>]

Texts == {None, NaN, Blank} \cup {Str(ws) : ws \in WordLists}

\* bool(text): None is falsy, float('nan') is truthy, a str is truthy iff non-empty
Truthy(text) ==
    CASE text.kind = "None" -> FALSE
      [] text.kind = "NaN" -> TRUE
      [] OTHER -> text.blank \/ text.words # <<>>

isna(text) == text.kind \in {"None", "NaN"}

isinstance_str(text) == text.kind = "str"

\* text.split(), the lower-casing forgotten
split_only(text) == text.words

\* text.lower().split()
split_lower(text) == [i \in 1..Len(text.words) |-> lower(text.words[i])]

-----------------------------------------------------------------------------
(* TextPreprocessor *)

\* re.sub(r'[^a-zA-ZÀ-ÿ0-9\s]', '', word): the punctuation of a word removed
strip_special(w) ==
    CASE w = "bom!" -> "bom"
      [] w = "produto," -> "produto"
      [] w = "excelente!" -> "excelente"
      [] w = "péssimo," -> "péssimo"
      [] w = "detestei." -> "detestei"
      [] w = "prazo." -> "prazo"
      [] w = "iphone!" -> "iphone"
      [] w = "mais." -> "mais"
      [] w = "oferece." -> "oferece"
      [] w = "preço." -> "preço"
      [] w = "lindo," -> "lindo"
      [] w = "inovações." -> "inovações"
      [] OTHER -> w

\* the members of stopwords.words('portuguese') among the words used here
STOP_WORDS == {"o", "no", "a", "e", "está", "muito", "mais", "para", "que", "não",
               "do", "mas"}

\* lower-cased, special characters removed, whitespace collapsed
clean_text(text) ==
    IF isna(text) \/ ~isinstance_str(text) THEN Str(<<>>)
    ELSE Str([i \in 1..Len(text.words) |-> strip_special(lower(text.words[i]))])

remove_stopwords(text) ==
    IF ~Truthy(text) THEN Str(<<>>)
    ELSE LET kept(w) == w \notin STOP_WORDS
         IN  Str(SelectSeq(text.words, kept))

\* preprocess_text(text, remove_stopwords=True, apply_stemming=False)
preprocess_text(text) == remove_stopwords(clean_text(text))

-----------------------------------------------------------------------------
(* Library outputs *)

BasePolarities == -100..100
BaseSubjectivities == {0, 50, 100}
Blobs == [polarity : BasePolarities, subjectivity : BaseSubjectivities]

VaderScores == {[compound |-> 0, pos |-> 0, neu |-> 100, neg |-> 0],
                [compound |-> 64, pos |-> 60, neu |-> 40, neg |-> 0],
                [compound |-> -54, pos |-> 0, neu |-> 45, neg |-> 55]}

-----------------------------------------------------------------------------
(* SentimentAnalyzer *)

POSITIVE_WORDS ==
    {"bom", "boa", "ótimo", "ótima", "excelente", "fantástico", "fantástica",
     "incrível", "maravilhoso", "maravilhosa", "perfeito", "perfeita",
     "adoro", "amo", "gosto", "recomendo", "satisfeito", "satisfeita",
     "feliz", "alegre", "contente", "impressionado", "impressionada",
     "surpreendente", "genial", "brilhante", "espetacular", "magnífico",
     "delicioso", "deliciosa", "saboroso", "saborosa", "gostoso", "gostosa"}

\* the negative words typed without their accents
NEGATIVE_WORDS_unaccented ==
    {"ruim", "pessimo", "pessima", "horrivel", "terrivel", "odioso",
     "detesto", "odeio", "desgosto", "desapontado", "desapontada",
     "frustrado", "frustrada", "irritado", "irritada", "bravo", "brava",
     "furioso", "furiosa", "chateado", "chateada", "triste", "deprimido",
     "deprimida", "angustiado", "angustiada", "preocupado", "preocupada",
     "nervoso", "nervosa", "ansioso", "ansiosa", "medo", "assustado",
     "assustada", "decepcionado", "decepcionada", "chocado", "chocada"}

NEGATIVE_WORDS ==
    {"ruim", "péssimo", "péssima", "horrível", "terrível", "odioso",
     "detesto", "odeio", "desgosto", "desapontado", "desapontada",
     "frustrado", "frustrada", "irritado", "irritada", "bravo", "brava",
     "furioso", "furiosa", "chateado", "chateada", "triste", "deprimido",
     "deprimida", "angustiado", "angustiada", "preocupado", "preocupada",
     "nervoso", "nervosa", "ansioso", "ansiosa", "medo", "assustado",
     "assustada", "decepcionado", "decepcionada", "chocado", "chocada"}

\* config.py: the word sets the configuration offers; the analyzer does not
\* read them
CUSTOM_POSITIVE_WORDS ==
    POSITIVE_WORDS \cup {"top", "show", "demais", "sensacional", "incrível", "fantástico"}

CUSTOM_NEGATIVE_WORDS ==
    NEGATIVE_WORDS \cup {"lixo", "porcaria", "merda", "droga", "inferno", "desastre"}

DefaultThreshold == 10
LexiconBump == 30

Min(a, b) == IF a < b THEN a ELSE b
Max(a, b) == IF a > b THEN a ELSE b

\* a guard that forgets pd.isna: `not text`
EmptyOnly(text) == ~Truthy(text)

\* `not text or pd.isna(text)`
EmptyOrMissing(text) == ~Truthy(text) \/ isna(text)

\* sum(1 for word in words if word in lexicon)
CountIn(words, lexicon) == Cardinality({i \in 1..Len(words) : words[i] \in lexicon})

\* the adjustment without its clamps
AdjustPolarityUnclamped(base, positive_count, negative_count) ==
    IF positive_count > negative_count THEN base + LexiconBump
    ELSE IF negative_count > positive_count THEN base - LexiconBump
    ELSE base

\* an adjustment by the threshold itself, 0.1, instead of 0.3
AdjustPolarityTimid(base, positive_count, negative_count) ==
    IF positive_count > negative_count THEN Min(100, base + DefaultThreshold)
    ELSE IF negative_count > positive_count THEN Max(-100, base - DefaultThreshold)
    ELSE base

AdjustPolarity(base, positive_count, negative_count) ==
    IF positive_count > negative_count THEN Min(100, base + LexiconBump)
    ELSE IF negative_count > positive_count THEN Max(-100, base - LexiconBump)
    ELSE base

NoCalls == [textblob |-> 0, lexicon |-> 0, vader |-> 0]

\* A returned value is always a record: a str is [str |-> s], a DataFrame is
\* [rows |-> its rows], an object is [object |-> its class].
NoValue == [none |-> TRUE]

Returned(value, calls) == [raised |-> "none", value |-> value, calls |-> calls]
Raised(exc, calls) == [raised |-> exc, value |-> NoValue, calls |-> calls]

\* an analyze_with_textblob that builds the TextBlob before it tests the text
analyze_with_textblob_eager(pos_words, neg_words, text, blob) ==
    IF ~isinstance_str(text)
    THEN Raised("TypeError", [NoCalls EXCEPT !.textblob = 1])
    ELSE IF EmptyOrMissing(text)
    THEN Returned([polarity |-> 0, subjectivity |-> 0], [NoCalls EXCEPT !.textblob = 1])
    ELSE LET words == split_lower(text)
             positive_count == CountIn(words, pos_words)
             negative_count == CountIn(words, neg_words)
         IN  Returned([polarity |-> AdjustPolarity(blob.polarity, positive_count,
                                                   negative_count),
                       subjectivity |-> blob.subjectivity],
                      [NoCalls EXCEPT !.textblob = 1, !.lexicon = 2])

\* blob is what TextBlob(text) yields for this text
analyze_with_textblob(pos_words, neg_words, text, blob) ==
    IF EmptyOrMissing(text)
    THEN Returned([polarity |-> 0, subjectivity |-> 0], NoCalls)
    ELSE IF ~isinstance_str(text)
    THEN Raised("TypeError", [NoCalls EXCEPT !.textblob = 1])
    ELSE LET words == split_lower(text)
             positive_count == CountIn(words, pos_words)
             negative_count == CountIn(words, neg_words)
         IN  Returned([polarity |-> AdjustPolarity(blob.polarity, positive_count,
                                                   negative_count),
                       subjectivity |-> blob.subjectivity],
                      [NoCalls EXCEPT !.textblob = 1, !.lexicon = 2])

VaderFallback == [compound |-> 0, pos |-> 0, neu |-> 100, neg |-> 0]

\* an analyze_with_vader without the `self.vader_analyzer is None` test:
\* None.polarity_scores raises AttributeError
analyze_with_vader_unchecked(analyzer, text, scores) ==
    IF EmptyOrMissing(text) THEN Returned(VaderFallback, NoCalls)
    ELSE IF analyzer = "None" THEN Raised("AttributeError", NoCalls)
    ELSE Returned(scores, [NoCalls EXCEPT !.vader = 1])

\* scores is what SentimentIntensityAnalyzer.polarity_scores(text) yields for this text
analyze_with_vader(analyzer, text, scores) ==
    IF EmptyOrMissing(text) THEN Returned(VaderFallback, NoCalls)
    ELSE IF analyzer = "None" THEN Returned(VaderFallback, NoCalls)
    ELSE Returned(scores, [NoCalls EXCEPT !.vader = 1])

\* a classifier whose comparisons include the threshold itself
classify_sentiment_inclusive(polarity, threshold) ==
    IF polarity >= threshold THEN "positivo"
    ELSE IF polarity <= -threshold THEN "negativo"
    ELSE "neutro"

classify_sentiment(polarity, threshold) ==
    IF polarity > threshold THEN "positivo"
    ELSE IF polarity < -threshold THEN "negativo"
    ELSE "neutro"

AddCalls(a, b) == [textblob |-> a.textblob + b.textblob,
                   lexicon |-> a.lexicon + b.lexicon,
                   vader |-> a.vader + b.vader]

Record(text, class, textblob_result, vader_result) ==
    [text |-> text,
     sentiment_class |-> class,
     polarity |-> textblob_result.polarity,
     subjectivity |-> textblob_result.subjectivity,
     vader_compound |-> vader_result.compound,
     vader_pos |-> vader_result.pos,
     vader_neu |-> vader_result.neu,
     vader_neg |-> vader_result.neg]

\* an analyze_text that classifies on the secondary (VADER) compound score
analyze_text_by_compound(pos_words, neg_words, analyzer, text, blob, scores) ==
    LET tb == analyze_with_textblob(pos_words, neg_words, text, blob)
        vd == analyze_with_vader(analyzer, text, scores)
    IN  IF tb.raised # "none" THEN Raised(tb.raised, tb.calls)
        ELSE IF vd.raised # "none" THEN Raised(vd.raised, AddCalls(tb.calls, vd.calls))
        ELSE Returned(Record(text,
                             classify_sentiment(vd.value.compound, DefaultThreshold),
                             tb.value, vd.value),
                      AddCalls(tb.calls, vd.calls))

analyze_text(pos_words, neg_words, analyzer, text, blob, scores) ==
    LET tb == analyze_with_textblob(pos_words, neg_words, text, blob)
        vd == analyze_with_vader(analyzer, text, scores)
    IN  IF tb.raised # "none" THEN Raised(tb.raised, tb.calls)
        ELSE IF vd.raised # "none" THEN Raised(vd.raised, AddCalls(tb.calls, vd.calls))
        ELSE Returned(Record(text,
                             classify_sentiment(tb.value.polarity, DefaultThreshold),
                             tb.value, vd.value),
                      AddCalls(tb.calls, vd.calls))

-----------------------------------------------------------------------------
(* DataFrames *)

\* A frame is the sequence of its rows in order; a row has its index label, its
\* text and its processed_text.  The index is the one preprocess_dataframe
\* leaves: labels of a RangeIndex with some rows dropped, increasing.
LabelSeqs ==
    {ls \in UNION {[1..n -> 0..MaxLabel] : n \in 0..MaxRows} :
        \A i \in 1..Len(ls), j \in 1..Len(ls) : i < j => ls[i] < ls[j]}

FrameTexts == {Str(<<"Bom">>), Str(<<"ruim">>), Str(<<"produto">>), Str(<<"o">>)}
FrameBlobs == {[polarity |-> 0, subjectivity |-> 50], [polarity |-> 30, subjectivity |-> 50]}
FrameScores == {[compound |-> 0, pos |-> 0, neu |-> 100, neg |-> 0],
                [compound |-> -54, pos |-> 0, neu |-> 45, neg |-> 55]}

\* the frame of texts under a RangeIndex, processed the column analyzed
RangeFrame(texts, processed) ==
    [i \in 1..Len(texts) |->
        [label |-> i - 1, text |-> texts[i], processed_text |-> processed[i]]]

\* the frames preprocess_text fills: processed_text is preprocess_text(text)
PreprocessedFrames ==
    UNION {{[i \in 1..Len(labels) |->
                [label |-> labels[i], text |-> texts[i],
                 processed_text |-> preprocess_text(texts[i])]] :
            texts \in [1..Len(labels) -> FrameTexts]} : labels \in LabelSeqs}

\* three comments on a product
ExampleTexts ==
    <<Str(<<"Adorei", "o", "produto,", "excelente!">>),
      Str(<<"Produto", "péssimo,", "detestei.">>),
      Str(<<"O", "produto", "chegou", "no", "prazo.">>)>>

\* the comments analyzed as they are, and analyzed after preprocess_text
ExampleFrames ==
    {RangeFrame(ExampleTexts, ExampleTexts),
     RangeFrame(ExampleTexts,
                [i \in 1..Len(ExampleTexts) |-> preprocess_text(ExampleTexts[i])])}

ExampleBlobs == {[polarity |-> p, subjectivity |-> 50] : p \in {-10, 0, 10, 30}}

Frames == PreprocessedFrames \cup ExampleFrames

Labels(df) == {df[i].label : i \in 1..Len(df)}

RowAt(df, label) == df[CHOOSE i \in 1..Len(df) : df[i].label = label]

\* the members of a set of integers in increasing order
Sorted(S) ==
    [i \in 1..Cardinality(S) |-> CHOOSE x \in S : Cardinality({y \in S : y < x}) = i - 1]

\* sentiment_df.drop('text', axis=1): the seven sentiment columns of a record
Scored(record) ==
    [sentiment_class |-> record.sentiment_class,
     polarity |-> record.polarity,
     subjectivity |-> record.subjectivity,
     vader_compound |-> record.vader_compound,
     vader_pos |-> record.vader_pos,
     vader_neu |-> record.vader_neu,
     vader_neg |-> record.vader_neg]

Missing == [present |-> FALSE]

\* pd.concat([df, sentiment], axis=1): an outer join on the index labels, df's
\* own labels against the RangeIndex 0..n-1 of the n sentiment rows.  A label
\* of one side only gets NaN in the other side's columns.  The joined index is
\* df's labels followed by the new ones, or the sorted union, by pandas version.
concat_axis1(df, sentiment, sorted) ==
    LET n == Len(sentiment)
        new == {l \in 0..(n - 1) : l \notin Labels(df)}
        index == IF sorted THEN Sorted(Labels(df) \cup new)
                 ELSE [i \in 1..Len(df) |-> df[i].label] \o Sorted(new)
    IN  [k \in 1..Len(index) |->
            [label |-> index[k],
             left |-> IF index[k] \in Labels(df)
                      THEN [present |-> TRUE,
                            text |-> RowAt(df, index[k]).text,
                            processed_text |-> RowAt(df, index[k]).processed_text]
                      ELSE Missing,
             right |-> IF index[k] < n
                       THEN [present |-> TRUE, scored |-> Scored(sentiment[index[k] + 1])]
                       ELSE Missing]]

\* blobs[i] and scores[i] are what TextBlob and VADER yield for the text of row i
analyze_dataframe(pos_words, neg_words, analyzer, df, blobs, scores, sorted) ==
    LET results == [i \in 1..Len(df) |->
                       analyze_text(pos_words, neg_words, analyzer,
                                    df[i].processed_text, blobs[i], scores[i])]
        failed == {i \in 1..Len(df) : results[i].raised # "none"}
    IN  IF failed # {}
        THEN Raised(results[CHOOSE i \in failed : \A j \in failed : i <= j].raised, NoCalls)
        ELSE IF Len(df) = 0
        THEN Raised("KeyError", NoCalls)   \* pd.DataFrame([]) has no 'text' column to drop
        ELSE Returned([rows |-> concat_axis1(df, [i \in 1..Len(df) |-> results[i].value],
                                             sorted)],
                      NoCalls)

-----------------------------------------------------------------------------
(* get_sentiment_summary *)

\* The frame a summary is asked of: classified says that it has the columns
\* analyze_dataframe adds (sentiment_class, polarity, subjectivity, vader_*);
\* its rows are joined rows, a NaN cell being a side that is not present.
SentimentClasses == {"positivo", "negativo", "neutro"}

Analyzed(rows) == [classified |-> TRUE, rows |-> rows]

\* a frame that analyze_dataframe has not seen: text and processed_text only
Unclassified(df) ==
    [classified |-> FALSE,
     rows |-> [i \in 1..Len(df) |->
                  [label |-> df[i].label,
                   left |-> [present |-> TRUE, text |-> df[i].text,
                             processed_text |-> df[i].processed_text],
                   right |-> Missing]]]

\* pd.DataFrame(records), its index set to labels
RecordFrame(records, labels) ==
    Analyzed([i \in 1..Len(records) |->
                 [label |-> labels[i],
                  left |-> [present |-> TRUE, text |-> records[i].text,
                            processed_text |-> records[i].text],
                  right |-> [present |-> TRUE, scored |-> Scored(records[i])]]])

HasScores(row) == row.right.present

\* the rows of a sentiment column that are not NaN, in order
Scores(rows) == SelectSeq(rows, HasScores)

Cell(row, column) ==
    CASE column = "sentiment_class" -> row.right.scored.sentiment_class
      [] column = "polarity" -> row.right.scored.polarity
      [] column = "subjectivity" -> row.right.scored.subjectivity

CountOf(rows, class) ==
    Cardinality({i \in 1..Len(rows) :
                    HasScores(rows[i]) /\ Cell(rows[i], "sentiment_class") = class})

\* value_counts of a categorical column: every category, the absent ones with 0
value_counts_categorical(rows) ==
    [class \in SentimentClasses |-> CountOf(rows, class)]

\* df['sentiment_class'].value_counts().to_dict(): NaN dropped, a class per value seen
value_counts(rows) ==
    [class \in {Cell(Scores(rows)[i], "sentiment_class") : i \in 1..Len(Scores(rows))} |->
        CountOf(rows, class)]

\* value_counts(normalize=True), the factor 100 forgotten
value_counts_fraction(rows) ==
    [class \in DOMAIN value_counts(rows) |->
        [num |-> value_counts(rows)[class], den |-> Len(Scores(rows))]]

\* (df['sentiment_class'].value_counts(normalize=True) * 100).to_dict(): each
\* count over the number of non-NaN values, times 100, kept as the fraction num/den
value_counts_percent(rows) ==
    [class \in DOMAIN value_counts(rows) |->
        [num |-> 100 * value_counts(rows)[class], den |-> Len(Scores(rows))]]

RECURSIVE SeqSum(_)
SeqSum(s) == IF s = <<>> THEN 0 ELSE Head(s) + SeqSum(Tail(s))

\* a float of a statistic: NaN or a value in hundredths
Num(v) == [nan |-> FALSE, value |-> v]
NaNNum == [nan |-> TRUE, value |-> 0]

\* df[column].describe().to_dict(): count, mean (the fraction num/den), min and
\* max of the non-NaN values; NaN for no value
describe(rows, column) ==
    LET values == [i \in 1..Len(Scores(rows)) |-> Cell(Scores(rows)[i], column)]
        S == {values[i] : i \in 1..Len(values)}
    IN  [count |-> Len(values),
         mean |-> [nan |-> values = <<>>, num |-> SeqSum(values), den |-> Len(values)],
         min |-> IF values = <<>> THEN NaNNum
                 ELSE Num(CHOOSE x \in S : \A y \in S : x <= y),
         max |-> IF values = <<>> THEN NaNNum
                 ELSE Num(CHOOSE x \in S : \A y \in S : x >= y)]

\* df['polarity'].idxmax(): the label of the first row that holds the largest
\* non-NaN polarity (the frames here have a scored row whenever they have a row)
idxmax(rows) ==
    LET scored == Scores(rows)
        top == describe(rows, "polarity").max.value
    IN  scored[CHOOSE i \in 1..Len(scored) :
                  /\ Cell(scored[i], "polarity") = top
                  /\ \A j \in 1..(i - 1) : Cell(scored[j], "polarity") # top].label

idxmin(rows) ==
    LET scored == Scores(rows)
        bottom == describe(rows, "polarity").min.value
    IN  scored[CHOOSE i \in 1..Len(scored) :
                  /\ Cell(scored[i], "polarity") = bottom
                  /\ \A j \in 1..(i - 1) : Cell(scored[j], "polarity") # bottom].label

\* a pandas Series of texts
Series(items) == [kind |-> "Series", blank |-> FALSE, words |-> <<>>, items |-> items]

\* df.loc[label, 'text']: the text of the row of that label (NaN for a row the
\* join gave no text); a Series of texts when several rows bear the label
loc_text(rows, label) ==
    LET at(row) == row.label = label
        found == SelectSeq(rows, at)
        cell(row) == IF row.left.present THEN row.left.text ELSE NaN
    IN  IF Len(found) = 1 THEN cell(found[1])
        ELSE Series([i \in 1..Len(found) |-> cell(found[i])])

\* the pandas calls a summary made
NoPandasCalls == [value_counts |-> 0, describe |-> 0, idxmax |-> 0]

Summary(rows, most_positive_text, most_negative_text) ==
    [total_texts |-> Len(rows),
     sentiment_counts |-> value_counts(rows),
     sentiment_percentages |-> value_counts_percent(rows),
     polarity_stats |-> describe(rows, "polarity"),
     subjectivity_stats |-> describe(rows, "subjectivity"),
     most_positive_text |-> most_positive_text,
     most_negative_text |-> most_negative_text]

\* a summary without the `if len(df) > 0` guards: idxmax of an empty column raises
get_sentiment_summary_unguarded(df) ==
    IF ~df.classified THEN Raised("ValueError", NoPandasCalls)
    ELSE IF Len(df.rows) = 0
    THEN Raised("ValueError", [value_counts |-> 2, describe |-> 2, idxmax |-> 1])
    ELSE Returned(Summary(df.rows, loc_text(df.rows, idxmax(df.rows)),
                          loc_text(df.rows, idxmin(df.rows))),
                  [value_counts |-> 2, describe |-> 2, idxmax |-> 2])

\* a summary without the test of the column: df['sentiment_class'] raises KeyError
get_sentiment_summary_unchecked(df) ==
    IF ~df.classified THEN Raised("KeyError", NoPandasCalls)
    ELSE Returned(Summary(df.rows,
                          IF Len(df.rows) > 0 THEN loc_text(df.rows, idxmax(df.rows))
                          ELSE None,
                          IF Len(df.rows) > 0 THEN loc_text(df.rows, idxmin(df.rows))
                          ELSE None),
                  [value_counts |-> 2, describe |-> 2,
                   idxmax |-> IF Len(df.rows) > 0 THEN 2 ELSE 0])

get_sentiment_summary(df) ==
    IF ~df.classified THEN Raised("ValueError", NoPandasCalls)
    ELSE Returned(Summary(df.rows,
                          IF Len(df.rows) > 0 THEN loc_text(df.rows, idxmax(df.rows))
                          ELSE None,
                          IF Len(df.rows) > 0 THEN loc_text(df.rows, idxmin(df.rows))
                          ELSE None),
                  [value_counts |-> 2, describe |-> 2,
                   idxmax |-> IF Len(df.rows) > 0 THEN 2 ELSE 0])

\* df.sort_values('polarity', ascending=False, inplace=True): the scored rows by
\* falling polarity (stable), the NaN rows last
sort_values(rows) ==
    LET n == Len(rows)
        key(i) == IF HasScores(rows[i]) THEN Cell(rows[i], "polarity") ELSE -101
        before(i, j) == key(i) > key(j) \/ (key(i) = key(j) /\ i < j)
        rank(i) == Cardinality({j \in 1..n : before(j, i)}) + 1
    IN  [k \in 1..n |-> rows[CHOOSE i \in 1..n : rank(i) = k]]

\* the records a summary can be asked of directly: what analyze_text returns for
\* a few texts and baselines
SummaryRecords ==
    {analyze_text(POSITIVE_WORDS, NEGATIVE_WORDS, "SIA", text, blob, VaderFallback).value :
        text \in {Str(<<"bom">>), Str(<<"ruim">>), Str(<<>>)}, blob \in FrameBlobs}

\* collections of records under any index (labels may repeat, as after a
\* pd.concat of two batches), the empty one included, and frames never analyzed
SummaryFrames ==
    UNION {{RecordFrame(records, labels) :
                records \in [1..n -> SummaryRecords], labels \in [1..n -> 0..MaxLabel]} :
           n \in 0..MaxRows}
    \cup {Unclassified(df) : df \in PreprocessedFrames}

-----------------------------------------------------------------------------
(* ReportGenerator and the final report of the pipeline *)

\* str.title() of a class
title(class) ==
    CASE class = "positivo" -> "Positivo"
      [] class = "negativo" -> "Negativo"
      [] class = "neutro" -> "Neutro"
      [] OTHER -> class

\* the keys max(sentiment_percentages, key=sentiment_percentages.get) can return:
\* a key of the largest percentage (the first of them in the order of the dict)
Dominants(summary) ==
    LET pct == summary.sentiment_percentages
    IN  {c \in DOMAIN pct :
            \A d \in DOMAIN pct : pct[d].num * pct[c].den <= pct[c].num * pct[d].den}

\* mean > bound, mean < bound of a describe(); False for NaN
MeanAbove(stats, bound) == ~stats.mean.nan /\ stats.mean.num > bound * stats.mean.den
MeanBelow(stats, bound) == ~stats.mean.nan /\ stats.mean.num < bound * stats.mean.den

\* percentage > bound
PercentAbove(percentage, bound) == percentage.num > bound * percentage.den

\* max() of an empty dict raises ValueError; bool() of a Series of several
\* texts raises ValueError
generate_insights(summary, dominant) ==
    IF DOMAIN summary.sentiment_percentages = {} THEN Raised("ValueError", NoCalls)
    ELSE IF summary.most_positive_text.kind = "Series" THEN Raised("ValueError", NoCalls)
    ELSE IF summary.most_negative_text.kind = "Series" THEN Raised("ValueError", NoCalls)
    ELSE Returned(
        [insights |->
            <<IF PercentAbove(summary.sentiment_percentages[dominant], 50)
              THEN "domina" ELSE "dividida",
              IF MeanAbove(summary.polarity_stats, 10) THEN "polaridade positiva"
              ELSE IF MeanBelow(summary.polarity_stats, -10) THEN "polaridade negativa"
              ELSE "polaridade neutra",
              IF MeanAbove(summary.subjectivity_stats, 60) THEN "alta subjetividade"
              ELSE IF MeanBelow(summary.subjectivity_stats, 40) THEN "baixa subjetividade"
              ELSE "subjetividade moderada">>
            \o (IF Truthy(summary.most_positive_text) THEN <<"muito positivos">> ELSE <<>>)
            \o (IF Truthy(summary.most_negative_text) THEN <<"muito negativos">> ELSE <<>>)],
        NoCalls)

generate_recommendations(summary, dominant) ==
    IF DOMAIN summary.sentiment_percentages = {} THEN Raised("ValueError", NoCalls)
    ELSE Returned(
        [recommendations |->
            (IF dominant = "negativo"
                /\ PercentAbove(summary.sentiment_percentages[dominant], 40)
             THEN <<"comunicação de crise", "investigar causas", "engajamento positivo">>
             ELSE IF dominant = "positivo"
                     /\ PercentAbove(summary.sentiment_percentages[dominant], 50)
             THEN <<"capitalizar", "amplificar", "usar o feedback">>
             ELSE <<"monitorar", "converter neutros">>)
            \o <<"monitoramento contínuo", "treinar equipe", "protocolos de resposta">>],
        NoCalls)

\* for sentiment, percentage in sentiment_percentages.items(): the count looked up
sentiment_items(summary) ==
    [class \in DOMAIN summary.sentiment_percentages |->
        [label |-> title(class),
         percentage |-> summary.sentiment_percentages[class],
         count |-> summary.sentiment_counts[class]]]

generate_html_report(summary, dominant) ==
    LET insights == generate_insights(summary, dominant)
        recommendations == generate_recommendations(summary, dominant)
    IN  IF DOMAIN summary.sentiment_percentages = {} THEN Raised("ValueError", NoCalls)
        ELSE IF insights.raised # "none" THEN Raised(insights.raised, NoCalls)
        ELSE IF recommendations.raised # "none" THEN Raised(recommendations.raised, NoCalls)
        ELSE Returned([html |-> [total_texts |-> summary.total_texts,
                                 avg_polarity |-> summary.polarity_stats.mean,
                                 avg_subjectivity |-> summary.subjectivity_stats.mean,
                                 dominant_sentiment |-> title(dominant),
                                 sentiment_items |-> sentiment_items(summary),
                                 insights_list |-> insights.value.insights,
                                 recommendations_list |->
                                     recommendations.value.recommendations]],
                      NoCalls)

generate_summary_text(summary, dominant) ==
    IF DOMAIN summary.sentiment_percentages = {} THEN Raised("ValueError", NoCalls)
    ELSE Returned([text |-> [total_texts |-> summary.total_texts,
                             avg_polarity |-> summary.polarity_stats.mean,
                             dominant_sentiment |-> title(dominant),
                             sentiment_items |-> sentiment_items(summary),
                             polarity_min |-> summary.polarity_stats.min,
                             polarity_max |-> summary.polarity_stats.max,
                             avg_subjectivity |-> summary.subjectivity_stats.mean]],
                  NoCalls)

\* the closing lines of run_complete_analysis: total and dominant sentiment
print_final_summary(summary, dominant) ==
    IF DOMAIN summary.sentiment_percentages = {} THEN Raised("ValueError", NoCalls)
    ELSE Returned([printed |-> [total_texts |-> summary.total_texts,
                                dominant_sentiment |-> title(dominant)]],
                  NoCalls)

-----------------------------------------------------------------------------
(* TextPreprocessor.preprocess_dataframe *)

\* a value of the text column that is not a str: a number
Number == [kind |-> "int", blank |-> FALSE, words |-> <<>>]

\* a value of the text column that is a list: the tokens of a text
TokenList == [kind |-> "list", blank |-> FALSE, words |-> <<"bom", "produto">>]

\* what the text column of a raw frame can hold
RawTexts == FrameTexts \cup {None, NaN, Number, TokenList}

\* clean_text tests `pd.isna(text) or not isinstance(text, str)`: pd.isna of a
\* list is an array of booleans, one per element, and the truth value of an
\* array of two or more elements raises ValueError
isna_is_ambiguous(text) == text.kind = "list" /\ Len(text.words) > 1

\* pd.DataFrame(list of dicts): the texts under a RangeIndex
RawFrame(texts) == [i \in 1..Len(texts) |-> [label |-> i - 1, text |-> texts[i]]]

\* the raw frames preprocess_dataframe is given: a text column under any
\* increasing index
RawFrames ==
    UNION {{[i \in 1..Len(labels) |-> [label |-> labels[i], text |-> texts[i]]] :
            texts \in [1..Len(labels) -> RawTexts]} : labels \in LabelSeqs}

\* preprocess_dataframe(df, 'text', remove_stopwords=True, apply_stemming=False):
\* the column processed_text is added to a copy, the rows whose processed_text
\* has length 0 are dropped, the index is left as it is; an exception of
\* clean_text leaves apply
preprocess_dataframe(df) ==
    LET processed == [i \in 1..Len(df) |->
                         [label |-> df[i].label, text |-> df[i].text,
                          processed_text |-> preprocess_text(df[i].text)]]
        kept(row) == Len(row.processed_text.words) > 0
    IN  IF \E i \in 1..Len(df) : isna_is_ambiguous(df[i].text)
        THEN Raised("ValueError", NoCalls)
        ELSE Returned([rows |-> SelectSeq(processed, kept)], NoCalls)

-----------------------------------------------------------------------------
(* data_collector and SentimentAnalysisPipeline *)

\* collect_sample_data(): the first three of its ten tweets
sample_tweets ==
    <<Str(<<"Adorei", "o", "novo", "iPhone!", "A", "câmera", "está", "incrível",
            "e", "a", "bateria", "dura", "muito", "mais.">>),
      Str(<<"iPhone", "muito", "caro", "para", "o", "que", "oferece.", "Não",
            "vale", "o", "preço.">>),
      Str(<<"Design", "do", "iPhone", "continua", "lindo,", "mas", "esperava",
            "mais", "inovações.">>)>>

collect_sample_data == RawFrame(sample_tweets)

\* bearer_token: None, the empty string or a token
Tokens == {None, Str(<<>>), Str(<<"token">>)}

\* what the Twitter search does: the tweets the paginator yields, and the
\* exception (if any) raised after them
TweetSeqs == UNION {[1..n -> FrameTexts] : n \in 0..MaxRows}
Responses == [error : {"none", "TweepyException"}, tweets : TweetSeqs]

\* search_tweets: the frame of the tweets found; any exception is printed and
\* the empty frame returned
search_tweets(response) ==
    IF response.error # "none" THEN <<>> ELSE RawFrame(response.tweets)

\* the outcome of writing a file
Writes == {"ok", "OSError"}

\* a stage's effects: the files it wrote
Wrote(files) == [written |-> files]

\* a collect_data that returns whatever the search returned
collect_data_without_fallback(use_sample, bearer_token, response, write) ==
    LET sample == use_sample \/ ~Truthy(bearer_token)
        df == IF sample THEN collect_sample_data ELSE search_tweets(response)
        calls == [search_tweets |-> IF sample THEN 0 ELSE 1,
                  collect_sample_data |-> IF sample THEN 1 ELSE 0,
                  written |-> IF write = "ok" THEN {"dados_brutos.csv"} ELSE {}]
    IN  IF write = "ok" THEN Returned([rows |-> df], calls) ELSE Raised(write, calls)

\* collect_data(query, use_sample, bearer_token): the sample data, or the tweets
\* found, or the sample data when none was found; the frame is written to
\* dados_brutos_<brand>.csv and returned
collect_data(use_sample, bearer_token, response, write) ==
    LET sample == use_sample \/ ~Truthy(bearer_token)
        found == search_tweets(response)
        df == IF sample THEN collect_sample_data
              ELSE IF found = <<>> THEN collect_sample_data
              ELSE found
        calls == [search_tweets |-> IF sample THEN 0 ELSE 1,
                  collect_sample_data |-> IF sample \/ found = <<>> THEN 1 ELSE 0,
                  written |-> IF write = "ok" THEN {"dados_brutos.csv"} ELSE {}]
    IN  IF write = "ok" THEN Returned([rows |-> df], calls) ELSE Raised(write, calls)

\* preprocess_data(df): preprocess_dataframe, then dados_processados_<brand>.csv
preprocess_data(df, write) ==
    LET r == preprocess_dataframe(df)
    IN  IF r.raised # "none" THEN Raised(r.raised, Wrote({}))
        ELSE IF write # "ok" THEN Raised(write, Wrote({}))
        ELSE Returned(r.value, Wrote({"dados_processados.csv"}))

\* analyze_sentiment(df): analyze_dataframe on processed_text, then
\* dados_analisados_<brand>.csv
analyze_sentiment(pos_words, neg_words, analyzer, df, blobs, scores, sorted, write) ==
    LET r == analyze_dataframe(pos_words, neg_words, analyzer, df, blobs, scores, sorted)
    IN  IF r.raised # "none" THEN Raised(r.raised, Wrote({}))
        ELSE IF write # "ok" THEN Raised(write, Wrote({}))
        ELSE Returned(r.value, Wrote({"dados_analisados.csv"}))

\* the five charts, in the order they are saved
CHART_FILES ==
    <<"distribuicao_sentimentos.png", "distribuicao_polaridade.png",
      "distribuicao_subjetividade.png", "palavras_sentimento.png", "dashboard.png">>

FilesOf(names) == {names[i] : i \in 1..Len(names)}

\* create_visualizations(df): the plots and the dashboard of the summary are
\* drawn (plots is what matplotlib does with the frame), then saved one by one;
\* saved is the number of charts the file system takes
create_visualizations(df, plots, saved) ==
    LET summary == get_sentiment_summary(Analyzed(df))
    IN  IF plots # "ok" THEN Raised(plots, Wrote({}))
        ELSE IF summary.raised # "none" THEN Raised(summary.raised, Wrote({}))
        ELSE IF saved < Len(CHART_FILES)
        THEN Raised("OSError", Wrote(FilesOf(SubSeq(CHART_FILES, 1, saved))))
        ELSE Returned([files |-> CHART_FILES], Wrote(FilesOf(CHART_FILES)))

\* the two files of the report, in the order they are written
REPORT_FILES == <<"relatorio.html", "resumo.txt">>

\* generate_report(df, chart_files): the summary, the HTML report written to
\* relatorio_<brand>.html, the text summary written to resumo_<brand>.txt;
\* saved is the number of files the file system takes
generate_report(df, chart_files, dominant, saved) ==
    LET summary == get_sentiment_summary(Analyzed(df))
        html == generate_html_report(summary.value, dominant)
        text == generate_summary_text(summary.value, dominant)
    IN  IF summary.raised # "none" THEN Raised(summary.raised, Wrote({}))
        ELSE IF html.raised # "none" THEN Raised(html.raised, Wrote({}))
        ELSE IF saved < 1 THEN Raised("OSError", Wrote({}))
        ELSE IF text.raised # "none" THEN Raised(text.raised, Wrote({REPORT_FILES[1]}))
        ELSE IF saved < 2 THEN Raised("OSError", Wrote({REPORT_FILES[1]}))
        ELSE Returned([str |-> REPORT_FILES[1]], Wrote(FilesOf(REPORT_FILES)))

\* the handler of run_complete_analysis that lets the exception through
except_Exception_reraising(e) == Raised(e, NoCalls)

\* except Exception as e: the error is printed and a failure result returned
except_Exception(e) == Returned([success |-> FALSE, error |-> e], NoCalls)

\* the end of the try block of run_complete_analysis: the summary of the
\* analyzed frame, the closing lines, the result
final_result(df_analyzed, chart_files, report_file, dominant) ==
    LET summary == get_sentiment_summary(Analyzed(df_analyzed))
        printed == print_final_summary(summary.value, dominant)
    IN  IF summary.raised # "none" THEN except_Exception(summary.raised)
        ELSE IF printed.raised # "none" THEN except_Exception(printed.raised)
        ELSE Returned([success |-> TRUE,
                       data |-> df_analyzed,
                       summary |-> summary.value,
                       report_file |-> report_file,
                       chart_files |-> chart_files,
                       duration |-> "timedelta"],
                      NoCalls)

-----------------------------------------------------------------------------
(* State machine *)

NoArgs == [op |-> "none"]
NoRet == [raised |-> "none", value |-> NoValue, calls |-> NoCalls]

Init ==
    /\ pc = "import"
    /\ VADER_AVAILABLE = "unbound"
    /\ lexiconOnDisk \in BOOLEAN
    /\ downloads = 0
    /\ stdout = 0
    /\ vader_analyzer = "unbound"
    /\ positive_words = {}
    /\ negative_words = {}
    /\ call = NoArgs
    /\ ret = NoRet

\* Module body: nltk.data.find, then nltk.download on LookupError.
\* find raises LookupError whenever the resource is absent, and may raise it
\* for a present one too (the id is looked up without its category);
\* download returns True, returns False (the default on an error) or raises.
LoadModule ==
    /\ pc = "import"
    /\ \E found \in {"found", "LookupError"} :
       \E download \in {"True", "False", "raises"} :
          /\ found = "found" => lexiconOnDisk
          /\ IF found = "found"
             THEN /\ VADER_AVAILABLE' = "True"
                  /\ UNCHANGED <<lexiconOnDisk, downloads, stdout>>
             ELSE /\ downloads' = downloads + 1
                  /\ lexiconOnDisk' = (lexiconOnDisk \/ download = "True")
                  /\ IF download = "raises"
                     THEN /\ VADER_AVAILABLE' = "False"
                          /\ stdout' = stdout + 1
                     ELSE /\ VADER_AVAILABLE' = "True"
                          /\ UNCHANGED stdout
    /\ pc' = "idle"
    /\ UNCHANGED <<self, call, ret>>

\* a constructor that tries the download again when the flag is off
ConstructRetrying ==
    /\ pc = "idle"
    /\ call' = [op |-> "__init__"]
    /\ \E download \in {"True", "False", "raises"} :
          IF VADER_AVAILABLE = "False"
          THEN /\ downloads' = downloads + 1
               /\ lexiconOnDisk' = (lexiconOnDisk \/ download = "True")
               /\ VADER_AVAILABLE' = IF download = "True" THEN "True" ELSE "False"
               /\ vader_analyzer' = IF download = "True" THEN "SIA" ELSE "None"
               /\ UNCHANGED stdout
          ELSE /\ vader_analyzer' = "SIA"
               /\ UNCHANGED process
    /\ positive_words' = POSITIVE_WORDS
    /\ negative_words' = NEGATIVE_WORDS
    /\ ret' = Returned([object |-> "SentimentAnalyzer"], NoCalls)
    /\ pc' = "done"

\* a constructor that fills both sets from one merged word list
ConstructMerging ==
    /\ pc = "idle"
    /\ call' = [op |-> "__init__"]
    /\ IF VADER_AVAILABLE = "True" /\ ~lexiconOnDisk
       THEN /\ ret' = Raised("LookupError", NoCalls)
            /\ UNCHANGED self
       ELSE /\ vader_analyzer' = IF VADER_AVAILABLE = "True" THEN "SIA" ELSE "None"
            /\ positive_words' = POSITIVE_WORDS \cup NEGATIVE_WORDS
            /\ negative_words' = POSITIVE_WORDS \cup NEGATIVE_WORDS
            /\ ret' = Returned([object |-> "SentimentAnalyzer"], NoCalls)
    /\ pc' = "done"
    /\ UNCHANGED process

\* SentimentAnalyzer(): SentimentIntensityAnalyzer() loads the lexicon file and
\* raises LookupError when it is not on disk
Construct ==
    /\ pc = "idle"
    /\ call' = [op |-> "__init__"]
    /\ IF VADER_AVAILABLE = "True" /\ ~lexiconOnDisk
       THEN /\ ret' = Raised("LookupError", NoCalls)
            /\ UNCHANGED self
       ELSE /\ vader_analyzer' = IF VADER_AVAILABLE = "True" THEN "SIA" ELSE "None"
            /\ positive_words' = POSITIVE_WORDS
            /\ negative_words' = NEGATIVE_WORDS
            /\ ret' = Returned([object |-> "SentimentAnalyzer"], NoCalls)
    /\ pc' = "done"
    /\ UNCHANGED process

Constructed == vader_analyzer # "unbound"

ClassifySentiment ==
    /\ pc = "idle"
    /\ Constructed
    /\ \E polarity \in -100..100 :
          /\ call' = [op |-> "classify_sentiment", polarity |-> polarity,
                      threshold |-> DefaultThreshold]
          /\ ret' = Returned([str |-> classify_sentiment(polarity, DefaultThreshold)], NoCalls)
    /\ pc' = "done"
    /\ UNCHANGED <<process, self>>

\* a primary scorer that learns: the words of a text of positive baseline join
\* self.positive_words
AnalyzeWithTextblobLearning ==
    /\ pc = "idle"
    /\ Constructed
    /\ \E text \in Texts, blob \in Blobs :
          /\ call' = [op |-> "analyze_with_textblob", text |-> text, blob |-> blob]
          /\ ret' = analyze_with_textblob(positive_words, negative_words, text, blob)
          /\ positive_words' =
                IF blob.polarity > 0 /\ ~EmptyOrMissing(text)
                THEN positive_words \cup {split_lower(text)[i] : i \in 1..Len(text.words)}
                ELSE positive_words
    /\ pc' = "done"
    /\ UNCHANGED <<process, vader_analyzer, negative_words>>

AnalyzeWithTextblob ==
    /\ pc = "idle"
    /\ Constructed
    /\ \E text \in Texts, blob \in Blobs :
          /\ call' = [op |-> "analyze_with_textblob", text |-> text, blob |-> blob]
          /\ ret' = analyze_with_textblob(positive_words, negative_words, text, blob)
    /\ pc' = "done"
    /\ UNCHANGED <<process, self>>

AnalyzeWithVader ==
    /\ pc = "idle"
    /\ Constructed
    /\ \E text \in Texts, scores \in VaderScores :
          /\ call' = [op |-> "analyze_with_vader", text |-> text, scores |-> scores]
          /\ ret' = analyze_with_vader(vader_analyzer, text, scores)
    /\ pc' = "done"
    /\ UNCHANGED <<process, self>>

AnalyzeText ==
    /\ pc = "idle"
    /\ Constructed
    /\ \E text \in Texts, blob \in Blobs, scores \in VaderScores :
          /\ call' = [op |-> "analyze_text", text |-> text, blob |-> blob,
                      scores |-> scores]
          /\ ret' = analyze_text(positive_words, negative_words, vader_analyzer,
                                 text, blob, scores)
    /\ pc' = "done"
    /\ UNCHANGED <<process, self>>

AnalyzeDataframe ==
    /\ pc = "idle"
    /\ Constructed
    /\ \E df \in Frames :
       \E blobs \in [1..Len(df) -> IF df \in ExampleFrames THEN ExampleBlobs ELSE FrameBlobs] :
       \E scores \in [1..Len(df) -> FrameScores] :
       \E sorted \in BOOLEAN :
          \* the libraries are functions of the text
          /\ \A i, j \in 1..Len(df) :
                df[i].processed_text = df[j].processed_text
                   => blobs[i] = blobs[j] /\ scores[i] = scores[j]
          \* df_after: the caller's frame when the call is over; the rows
          \* are written to df.copy()
          /\ call' = [op |-> "analyze_dataframe", df |-> df, df_after |-> df,
                      blobs |-> blobs, scores |-> scores, sorted |-> sorted]
          /\ ret' = analyze_dataframe(positive_words, negative_words, vader_analyzer,
                                      df, blobs, scores, sorted)
    /\ pc' = "done"
    /\ UNCHANGED <<process, self>>

\* a summary that sorts the caller's frame in place to find the extremes
GetSentimentSummarySorting ==
    /\ pc = "idle"
    /\ Constructed
    /\ \E df \in SummaryFrames :
          /\ call' = [op |-> "get_sentiment_summary", df |-> df,
                      df_after |-> [df EXCEPT !.rows = sort_values(df.rows)],
                      again |-> FALSE]
          /\ ret' = get_sentiment_summary(df)
    /\ pc' = "done"
    /\ UNCHANGED <<process, self>>

\* get_sentiment_summary(df) of a frame the caller holds; df is the frame as
\* passed, df_after the same object when the call returns
GetSentimentSummary ==
    /\ pc = "idle"
    /\ Constructed
    /\ \E df \in SummaryFrames :
          /\ call' = [op |-> "get_sentiment_summary", df |-> df, df_after |-> df,
                      again |-> FALSE]
          /\ ret' = get_sentiment_summary(df)
    /\ pc' = "done"
    /\ UNCHANGED <<process, self>>

\* the pipeline: get_sentiment_summary of the frame analyze_dataframe returned
SummarizeAnalyzed ==
    /\ pc = "done"
    /\ call.op = "analyze_dataframe"
    /\ ret.raised = "none"
    /\ call' = [op |-> "get_sentiment_summary", df |-> Analyzed(ret.value.rows),
                df_after |-> Analyzed(ret.value.rows), again |-> FALSE]
    /\ ret' = get_sentiment_summary(Analyzed(ret.value.rows))
    /\ pc' = "done"
    /\ UNCHANGED <<process, self>>

\* the pipeline asks again for the summary of the same frame
SummarizeAgain ==
    /\ pc = "done"
    /\ call.op = "get_sentiment_summary"
    /\ ~call.again
    /\ call' = [op |-> "get_sentiment_summary", df |-> call.df_after,
                df_after |-> call.df_after, again |-> TRUE]
    /\ ret' = get_sentiment_summary(call.df_after)
    /\ pc' = "done"
    /\ UNCHANGED <<process, self>>

\* a summary was returned and its caller hands it on
SummaryReturned ==
    /\ pc = "done"
    /\ call.op = "get_sentiment_summary"
    /\ ret.raised = "none"

\* what max(...) of the percentages yields; "none" stands for no key at all
DominantChoices(summary) ==
    IF Dominants(summary) = {} THEN {"none"} ELSE Dominants(summary)

GenerateInsights ==
    /\ SummaryReturned
    /\ \E dominant \in DominantChoices(ret.value) :
          /\ call' = [op |-> "generate_insights", summary |-> ret.value,
                      dominant |-> dominant]
          /\ ret' = generate_insights(ret.value, dominant)
    /\ pc' = "done"
    /\ UNCHANGED <<process, self>>

GenerateRecommendations ==
    /\ SummaryReturned
    /\ \E dominant \in DominantChoices(ret.value) :
          /\ call' = [op |-> "generate_recommendations", summary |-> ret.value,
                      dominant |-> dominant]
          /\ ret' = generate_recommendations(ret.value, dominant)
    /\ pc' = "done"
    /\ UNCHANGED <<process, self>>

GenerateHtmlReport ==
    /\ SummaryReturned
    /\ \E dominant \in DominantChoices(ret.value) :
          /\ call' = [op |-> "generate_html_report", summary |-> ret.value,
                      dominant |-> dominant]
          /\ ret' = generate_html_report(ret.value, dominant)
    /\ pc' = "done"
    /\ UNCHANGED <<process, self>>

GenerateSummaryText ==
    /\ SummaryReturned
    /\ \E dominant \in DominantChoices(ret.value) :
          /\ call' = [op |-> "generate_summary_text", summary |-> ret.value,
                      dominant |-> dominant]
          /\ ret' = generate_summary_text(ret.value, dominant)
    /\ pc' = "done"
    /\ UNCHANGED <<process, self>>

\* run_complete_analysis prints the total and the dominant sentiment
PrintFinalSummary ==
    /\ SummaryReturned
    /\ \E dominant \in DominantChoices(ret.value) :
          /\ call' = [op |-> "print_final_summary", summary |-> ret.value,
                      dominant |-> dominant]
          /\ ret' = print_final_summary(ret.value, dominant)
    /\ pc' = "done"
    /\ UNCHANGED <<process, self>>

\* preprocess_dataframe(df) of a raw frame the caller holds; df_after is the
\* caller's frame when the call returns (the column is added to df.copy())
PreprocessDataframe ==
    /\ pc = "idle"
    /\ Constructed
    /\ \E df \in RawFrames :
          /\ call' = [op |-> "preprocess_dataframe", df |-> df, df_after |-> df]
          /\ ret' = preprocess_dataframe(df)
    /\ pc' = "done"
    /\ UNCHANGED <<process, self>>

\* pipeline.collect_data(query, use_sample, bearer_token)
CollectData ==
    /\ pc = "idle"
    /\ Constructed
    /\ \E use_sample \in BOOLEAN, bearer_token \in Tokens :
       \E response \in Responses, write \in Writes :
          /\ call' = [op |-> "collect_data", use_sample |-> use_sample,
                      bearer_token |-> bearer_token, response |-> response,
                      write |-> write]
          /\ ret' = collect_data(use_sample, bearer_token, response, write)
    /\ pc' = "done"
    /\ UNCHANGED <<process, self>>

\* run_complete_analysis(query, use_sample, bearer_token) is entered; stages
\* lists the stages called so far, files the files written so far, and the
\* other fields are its local variables (empty until assigned)
RunCompleteAnalysis ==
    /\ pc = "idle"
    /\ Constructed
    /\ \E use_sample \in BOOLEAN, bearer_token \in Tokens :
          call' = [op |-> "run_complete_analysis", use_sample |-> use_sample,
                   bearer_token |-> bearer_token, stages |-> <<>>, files |-> {},
                   df_raw |-> <<>>, df_processed |-> <<>>, df_analyzed |-> <<>>,
                   blobs |-> <<>>, scores |-> <<>>, sorted |-> FALSE,
                   chart_files |-> <<>>, report_file |-> ""]
    /\ pc' = "running"
    /\ UNCHANGED <<process, self, ret>>

\* run_complete_analysis is about to call stage number n + 1
Running(n) ==
    /\ pc = "running"
    /\ call.op = "run_complete_analysis"
    /\ Len(call.stages) = n

\* the stage raised: the except clause returns the failure result
StageRaises(stage, r) ==
    /\ call' = [call EXCEPT !.stages = Append(@, stage),
                            !.files = @ \cup r.calls.written]
    /\ ret' = except_Exception(r.raised)
    /\ pc' = "done"

\* the stage returned: its result is assigned and the next stage can be called
StageReturns(stage, r, assigned) ==
    /\ call' = [assigned EXCEPT !.stages = Append(@, stage),
                                !.files = @ \cup r.calls.written]
    /\ pc' = "running"
    /\ UNCHANGED ret

\* df_raw = self.collect_data(query, use_sample, bearer_token)
RunCollectData ==
    /\ Running(0)
    /\ \E response \in Responses, write \in Writes :
          LET r == collect_data(call.use_sample, call.bearer_token, response, write)
          IN  IF r.raised # "none" THEN StageRaises("collect", r)
              ELSE StageReturns("collect", r, [call EXCEPT !.df_raw = r.value.rows])
    /\ UNCHANGED <<process, self>>

\* df_processed = self.preprocess_data(df_raw)
RunPreprocessData ==
    /\ Running(1)
    /\ \E write \in Writes :
          LET r == preprocess_data(call.df_raw, write)
          IN  IF r.raised # "none" THEN StageRaises("preprocess", r)
              ELSE StageReturns("preprocess", r,
                                [call EXCEPT !.df_processed = r.value.rows])
    /\ UNCHANGED <<process, self>>

\* df_analyzed = self.analyze_sentiment(df_processed)
RunAnalyzeSentiment ==
    /\ Running(2)
    /\ \E blobs \in [1..Len(call.df_processed) -> FrameBlobs] :
       \E scores \in [1..Len(call.df_processed) -> FrameScores] :
       \E sorted \in BOOLEAN, write \in Writes :
          \* the libraries are functions of the text
          /\ \A i, j \in 1..Len(call.df_processed) :
                call.df_processed[i].processed_text = call.df_processed[j].processed_text
                   => blobs[i] = blobs[j] /\ scores[i] = scores[j]
          /\ LET r == analyze_sentiment(positive_words, negative_words, vader_analyzer,
                                        call.df_processed, blobs, scores, sorted, write)
                 given == [call EXCEPT !.blobs = blobs, !.scores = scores,
                                       !.sorted = sorted]
             IN  IF r.raised # "none" THEN StageRaises("analyze", r)
                 ELSE StageReturns("analyze", r,
                                   [given EXCEPT !.df_analyzed = r.value.rows])
    /\ UNCHANGED <<process, self>>

\* chart_files = self.create_visualizations(df_analyzed)
RunCreateVisualizations ==
    /\ Running(3)
    /\ \E plots \in {"ok", "ValueError"}, saved \in 0..Len(CHART_FILES) :
          LET r == create_visualizations(call.df_analyzed, plots, saved)
          IN  IF r.raised # "none" THEN StageRaises("visualize", r)
              ELSE StageReturns("visualize", r,
                                [call EXCEPT !.chart_files = r.value.files])
    /\ UNCHANGED <<process, self>>

\* a report stage that does not wait for the charts
RunGenerateReportEarly ==
    /\ pc = "running"
    /\ call.op = "run_complete_analysis"
    /\ Len(call.stages) \in {3, 4}
    /\ \E dominant \in DominantChoices(get_sentiment_summary(Analyzed(call.df_analyzed)).value) :
       \E saved \in 0..Len(REPORT_FILES) :
          LET r == generate_report(call.df_analyzed, call.chart_files, dominant, saved)
          IN  IF r.raised # "none" THEN StageRaises("report", r)
              ELSE StageReturns("report", r, [call EXCEPT !.report_file = r.value.str])
    /\ UNCHANGED <<process, self>>

\* report_file = self.generate_report(df_analyzed, chart_files)
RunGenerateReport ==
    /\ Running(4)
    /\ \E dominant \in DominantChoices(get_sentiment_summary(Analyzed(call.df_analyzed)).value) :
       \E saved \in 0..Len(REPORT_FILES) :
          LET r == generate_report(call.df_analyzed, call.chart_files, dominant, saved)
          IN  IF r.raised # "none" THEN StageRaises("report", r)
              ELSE StageReturns("report", r, [call EXCEPT !.report_file = r.value.str])
    /\ UNCHANGED <<process, self>>

\* the summary, the closing lines and the return of the result
RunReturn ==
    /\ Running(5)
    /\ \E dominant \in DominantChoices(get_sentiment_summary(Analyzed(call.df_analyzed)).value) :
          ret' = final_result(call.df_analyzed, call.chart_files, call.report_file,
                              dominant)
    /\ pc' = "done"
    /\ UNCHANGED <<process, self, call>>

\* the caller takes the result; the next call can start
Return ==
    /\ pc = "done"
    /\ pc' = "idle"
    /\ call' = NoArgs
    /\ ret' = NoRet
    /\ UNCHANGED <<process, self>>

Next ==
    \/ LoadModule
    \/ Construct
    \/ ClassifySentiment
    \/ AnalyzeWithTextblob
    \/ AnalyzeWithVader
    \/ AnalyzeText
    \/ AnalyzeDataframe
    \/ GetSentimentSummary
    \/ SummarizeAnalyzed
    \/ SummarizeAgain
    \/ GenerateInsights
    \/ GenerateRecommendations
    \/ GenerateHtmlReport
    \/ GenerateSummaryText
    \/ PrintFinalSummary
    \/ PreprocessDataframe
    \/ CollectData
    \/ RunCompleteAnalysis
    \/ RunCollectData
    \/ RunPreprocessData
    \/ RunAnalyzeSentiment
    \/ RunCreateVisualizations
    \/ RunGenerateReport
    \/ RunReturn
    \/ Return

Spec == Init /\ [][Next]_vars

-----------------------------------------------------------------------------
(* Properties *)

Done(op) == pc = "done" /\ call.op = op

\* the empty string, None or NaN
IsEmptyOrMissingText(text) ==
    \/ text.kind \in {"None", "NaN"}
    \/ text.kind = "str" /\ ~text.blank /\ text.words = <<>>

\* the number of lower-cased whitespace-separated tokens of text found in lexicon
Hits(text, lexicon) ==
    Cardinality({i \in 1..Len(text.words) : lower(text.words[i]) \in lexicon})

\* C1: with the default threshold 0.1, classify_sentiment(p) is 'positivo' iff
\* p > 0.1, 'negativo' iff p < -0.1 and 'neutro' otherwise (p = 0.1 and p = -0.1
\* included); the result is always one of these three categories.
C1_ClassifyThreshold ==
    Done("classify_sentiment") =>
        /\ call.threshold = 10
        /\ ret.raised = "none"
        /\ ret.value.str \in {"positivo", "negativo", "neutro"}
        /\ (ret.value.str = "positivo") <=> (call.polarity > 10)
        /\ (ret.value.str = "negativo") <=> (call.polarity < -10)
        /\ (ret.value.str = "neutro") <=> (call.polarity >= -10 /\ call.polarity <= 10)
        /\ call.polarity \in {10, -10} => ret.value.str = "neutro"

C1_Witness ==
    Done("classify_sentiment") /\ call.polarity = 10 /\ ret.value.str = "neutro"

\* C2: for every input frame (any length, the empty one included, and any index
\* labels, the non-contiguous index preprocess_dataframe leaves included)
\* analyze_dataframe returns exactly one scored row per input row, in the same
\* order, row i's sentiment fields computed from row i's text.
C2_OneScoredRowPerInputRow ==
    Done("analyze_dataframe") =>
        /\ ret.raised = "none"
        /\ Len(ret.value.rows) = Len(call.df)
        /\ \A i \in 1..Len(call.df) :
              /\ ret.value.rows[i].label = call.df[i].label
              /\ ret.value.rows[i].left =
                    [present |-> TRUE, text |-> call.df[i].text,
                     processed_text |-> call.df[i].processed_text]
              /\ ret.value.rows[i].right =
                    [present |-> TRUE,
                     scored |-> Scored(analyze_text(positive_words, negative_words,
                                                    vader_analyzer,
                                                    call.df[i].processed_text,
                                                    call.blobs[i], call.scores[i]).value)]

\* C3: in every record analyze_text returns, sentiment_class is
\* classify_sentiment(polarity) with the default threshold 0.1, polarity being
\* the primary polarity of the same record; two records of equal polarity have
\* the same class whatever their vader_* values and whether or not VADER is
\* available.
C3_ClassFromPolarityOnly ==
    /\ (Done("analyze_text") /\ ret.raised = "none") =>
          /\ ret.value.polarity =
                analyze_with_textblob(positive_words, negative_words,
                                      call.text, call.blob).value.polarity
          /\ ret.value.sentiment_class = classify_sentiment(ret.value.polarity, 10)
    /\ (Done("analyze_dataframe") /\ ret.raised = "none") =>
          \A i, j \in 1..Len(ret.value.rows) :
             (/\ ret.value.rows[i].right.present
              /\ ret.value.rows[j].right.present
              /\ ret.value.rows[i].right.scored.polarity = ret.value.rows[j].right.scored.polarity)
             => ret.value.rows[i].right.scored.sentiment_class
                   = ret.value.rows[j].right.scored.sentiment_class

C3_Witness ==
    /\ Done("analyze_dataframe")
    /\ ret.raised = "none"
    /\ \E i, j \in 1..Len(ret.value.rows) :
          /\ ret.value.rows[i].right.present
          /\ ret.value.rows[j].right.present
          /\ ret.value.rows[i].right.scored.polarity = 30
          /\ ret.value.rows[j].right.scored.polarity = 30
          /\ ret.value.rows[i].right.scored.vader_compound = -54
          /\ ret.value.rows[j].right.scored.vader_compound = 0
          /\ ret.value.rows[i].right.scored.sentiment_class = "positivo"

\* C4: analyze_text never raises for a text, the empty string, None and NaN
\* included; for empty or missing input it returns polarity 0.0, subjectivity 0.0,
\* class 'neutro' and the secondary fallback values (0.0, 0.0, 1.0, 0.0).
C4_AnalyzeTextTotal ==
    Done("analyze_text") =>
        /\ ret.raised = "none"
        /\ IsEmptyOrMissingText(call.text) =>
              /\ ret.value.polarity = 0
              /\ ret.value.subjectivity = 0
              /\ ret.value.sentiment_class = "neutro"
              /\ ret.value.vader_compound = 0
              /\ ret.value.vader_pos = 0
              /\ ret.value.vader_neu = 100
              /\ ret.value.vader_neg = 0

C4_Witness ==
    /\ Done("analyze_text")
    /\ call.text = NaN
    /\ vader_analyzer = "SIA"
    /\ ret.raised = "none"
    /\ ret.value.sentiment_class = "neutro"

\* C5: analyze_with_textblob returns exactly {polarity 0.0, subjectivity 0.0} for
\* empty or missing text, without invoking the baseline estimator or the lexicon
\* count and without raising.
C5_TextblobEmpty ==
    (Done("analyze_with_textblob") /\ IsEmptyOrMissingText(call.text)) =>
        /\ ret.raised = "none"
        /\ ret.value = [polarity |-> 0, subjectivity |-> 0]
        /\ ret.calls.textblob = 0
        /\ ret.calls.lexicon = 0

C5_Witness ==
    /\ Done("analyze_with_textblob")
    /\ call.text = Str(<<>>)
    /\ call.blob.polarity # 0
    /\ ret.value = [polarity |-> 0, subjectivity |-> 0]

\* C6: for a non-empty text with baseline polarity b, pos_count and neg_count
\* lower-cased whitespace-separated tokens in the positive and negative lexicon,
\* analyze_with_textblob returns polarity min(1.0, b + 0.3) if pos_count > neg_count,
\* max(-1.0, b - 0.3) if neg_count > pos_count and b if the counts are equal.
C6_LexiconDominance ==
    (Done("analyze_with_textblob") /\ call.text.kind = "str" /\ Truthy(call.text)) =>
        LET b == call.blob.polarity
            pos_count == Hits(call.text, positive_words)
            neg_count == Hits(call.text, negative_words)
        IN  /\ ret.raised = "none"
            /\ pos_count > neg_count =>
                  ret.value.polarity = IF b + 30 > 100 THEN 100 ELSE b + 30
            /\ neg_count > pos_count =>
                  ret.value.polarity = IF b - 30 < -100 THEN -100 ELSE b - 30
            /\ pos_count = neg_count => ret.value.polarity = b

C6_Witness ==
    /\ Done("analyze_with_textblob")
    /\ call.text = Str(<<"Bom", "bom!">>)
    /\ call.blob.polarity = 80
    /\ ret.value.polarity = 100

\* C7: analyze_with_textblob returns polarity within [-1, 1] and subjectivity
\* within [0, 1] for a baseline in those ranges, in each of the three adjustment
\* branches, and the subjectivity of a non-empty text is the baseline's.
C7_ScoreRanges ==
    Done("analyze_with_textblob") =>
        /\ ret.raised = "none"
        /\ ret.value.polarity >= -100 /\ ret.value.polarity <= 100
        /\ ret.value.subjectivity >= 0 /\ ret.value.subjectivity <= 100
        /\ ~IsEmptyOrMissingText(call.text) =>
              ret.value.subjectivity = call.blob.subjectivity

C7_Witness ==
    /\ Done("analyze_with_textblob")
    /\ call.text = Str(<<"ruim">>)
    /\ call.blob.polarity = -71
    /\ ret.value.polarity = -100
    /\ ret.value.subjectivity = 50

\* C8: analyze_with_vader returns the fixed fallback (0.0, 0.0, 1.0, 0.0) whenever
\* the text is empty or missing or vader_analyzer is None; only for a non-empty
\* text with the scorer available does it return the scorer's four values,
\* unmodified.
C8_VaderFallback ==
    Done("analyze_with_vader") =>
        /\ ret.raised = "none"
        /\ IF IsEmptyOrMissingText(call.text) \/ vader_analyzer = "None"
           THEN ret.value = [compound |-> 0, pos |-> 0, neu |-> 100, neg |-> 0]
                /\ ret.calls.vader = 0
           ELSE ret.value = call.scores /\ ret.calls.vader = 1

C8_Witness ==
    /\ Done("analyze_with_vader")
    /\ vader_analyzer = "None"
    /\ call.text = Str(<<"ruim">>)
    /\ call.scores.compound = -54
    /\ ret.value.compound = 0

\* the secondary scores of a returned value are the fallback and VADER was not called
UsesFallback(r) ==
    /\ r.raised = "none"
    /\ r.calls.vader = 0

\* C9: VADER_AVAILABLE is decided once, when the module is loaded, and never
\* changes afterwards: no constructor call and no scoring call attempts the
\* load or the download again, and once the flag is off every later scoring
\* call uses the fallback.
C9_AvailabilityDecidedOnce ==
    [][/\ pc = "import" => VADER_AVAILABLE = "unbound" /\ VADER_AVAILABLE' # "unbound"
       /\ pc # "import" =>
             /\ VADER_AVAILABLE' = VADER_AVAILABLE
             /\ downloads' = downloads
             /\ stdout' = stdout
       /\ (VADER_AVAILABLE = "False" /\ pc' = "done") =>
             /\ call'.op = "__init__" => vader_analyzer' = "None"
             /\ call'.op = "analyze_with_vader" =>
                   UsesFallback(ret') /\ ret'.value = VaderFallback
             /\ call'.op = "analyze_text" =>
                   /\ UsesFallback(ret')
                   /\ ret'.value.vader_compound = 0
                   /\ ret'.value.vader_neu = 100
             /\ (call'.op = "analyze_dataframe" /\ ret'.raised = "none") =>
                   \A i \in 1..Len(ret'.value.rows) :
                      ret'.value.rows[i].right.present =>
                         /\ ret'.value.rows[i].right.scored.vader_compound = 0
                         /\ ret'.value.rows[i].right.scored.vader_neu = 100
      ]_vars

C9_Witness ==
    /\ Done("analyze_text")
    /\ VADER_AVAILABLE = "False"
    /\ downloads = 1
    /\ call.text = Str(<<"ruim">>)
    /\ call.scores.compound = -54
    /\ ret.value.vader_compound = 0

\* C10: when the secondary scorer's resource is missing and cannot be obtained at
\* startup (the download raises or merely reports failure) the failure is not
\* fatal: constructing a SentimentAnalyzer succeeds with vader_analyzer = None,
\* every scoring call returns the fallback without raising, and the
\* unavailability was reported once, at startup.
C10_UnavailableIsNotFatal ==
    (pc = "done" /\ ~lexiconOnDisk) =>
        /\ call.op = "__init__" =>
              /\ ret.raised = "none"
              /\ vader_analyzer = "None"
              /\ stdout = 1
        /\ call.op = "analyze_with_vader" =>
              UsesFallback(ret) /\ ret.value = VaderFallback
        /\ call.op = "analyze_text" =>
              UsesFallback(ret) /\ ret.value.vader_neu = 100

-----------------------------------------------------------------------------
(* Properties of the summary *)

\* a collection of records: every row has its text and its sentiment fields
IsRecordCollection(df) ==
    /\ df.classified
    /\ \A i \in 1..Len(df.rows) : df.rows[i].left.present /\ df.rows[i].right.present

PolarityAt(rows, i) == rows[i].right.scored.polarity
SubjectivityAt(rows, i) == rows[i].right.scored.subjectivity
ClassAt(rows, i) == rows[i].right.scored.sentiment_class

\* the number of records of a class
Tally(rows, class) == Cardinality({i \in 1..Len(rows) : ClassAt(rows, i) = class})

\* the first record, in input order, of the largest and of the smallest polarity
FirstMax(rows) ==
    CHOOSE i \in 1..Len(rows) :
        /\ \A j \in 1..Len(rows) : PolarityAt(rows, j) <= PolarityAt(rows, i)
        /\ \A j \in 1..(i - 1) : PolarityAt(rows, j) < PolarityAt(rows, i)

FirstMin(rows) ==
    CHOOSE i \in 1..Len(rows) :
        /\ \A j \in 1..Len(rows) : PolarityAt(rows, j) >= PolarityAt(rows, i)
        /\ \A j \in 1..(i - 1) : PolarityAt(rows, j) > PolarityAt(rows, i)

\* C11: get_sentiment_summary of an empty collection of records does not raise
\* and returns total_texts = 0, empty sentiment_counts and sentiment_percentages,
\* and None for most_positive_text and most_negative_text (the statistics have
\* count 0 and NaN values).
C11_EmptySummary ==
    (Done("get_sentiment_summary") /\ call.df.classified /\ call.df.rows = <<>>) =>
        /\ ret.raised = "none"
        /\ ret.value.total_texts = 0
        /\ DOMAIN ret.value.sentiment_counts = {}
        /\ DOMAIN ret.value.sentiment_percentages = {}
        /\ ret.value.most_positive_text = None
        /\ ret.value.most_negative_text = None
        /\ ret.value.polarity_stats.count = 0
        /\ ret.value.polarity_stats.mean.nan
        /\ ret.value.subjectivity_stats.count = 0

C11_Witness ==
    /\ Done("get_sentiment_summary")
    /\ call.df.classified
    /\ call.df.rows = <<>>
    /\ ret.raised = "none"
    /\ ret.value.total_texts = 0

\* C12: for every non-empty collection of records, total_texts is the number of
\* records and sentiment_counts maps exactly the classes that occur to the number
\* of records of the class; a class that does not occur is a key of neither
\* sentiment_counts nor sentiment_percentages.
C12_ExactCounts ==
    (Done("get_sentiment_summary") /\ IsRecordCollection(call.df) /\ call.df.rows # <<>>) =>
        /\ ret.raised = "none"
        /\ ret.value.total_texts = Len(call.df.rows)
        /\ DOMAIN ret.value.sentiment_counts \subseteq SentimentClasses
        /\ \A class \in SentimentClasses :
              IF Tally(call.df.rows, class) > 0
              THEN /\ class \in DOMAIN ret.value.sentiment_counts
                   /\ ret.value.sentiment_counts[class] = Tally(call.df.rows, class)
                   /\ class \in DOMAIN ret.value.sentiment_percentages
              ELSE /\ class \notin DOMAIN ret.value.sentiment_counts
                   /\ class \notin DOMAIN ret.value.sentiment_percentages

C12_Witness ==
    /\ Done("get_sentiment_summary")
    /\ IsRecordCollection(call.df)
    /\ Len(call.df.rows) = 2
    /\ ClassAt(call.df.rows, 1) = "positivo"
    /\ ClassAt(call.df.rows, 2) = "positivo"
    /\ ret.raised = "none"
    /\ DOMAIN ret.value.sentiment_counts = {"positivo"}
    /\ ret.value.sentiment_counts["positivo"] = 2

\* the sum of the fractions f[c], c in S, as a fraction
RECURSIVE FractionSum(_, _)
FractionSum(f, S) ==
    IF S = {} THEN [num |-> 0, den |-> 1]
    ELSE LET c == CHOOSE x \in S : TRUE
             rest == FractionSum(f, S \ {c})
         IN  [num |-> f[c].num * rest.den + rest.num * f[c].den,
              den |-> f[c].den * rest.den]

\* C13: for every non-empty collection of records, sentiment_percentages[c] is
\* 100 * sentiment_counts[c] / total_texts for each class present, and the
\* percentages of the classes present sum to 100 (in exact arithmetic).
C13_Percentages ==
    (Done("get_sentiment_summary") /\ IsRecordCollection(call.df) /\ call.df.rows # <<>>) =>
        /\ ret.raised = "none"
        /\ DOMAIN ret.value.sentiment_percentages = DOMAIN ret.value.sentiment_counts
        /\ \A c \in DOMAIN ret.value.sentiment_percentages :
              /\ ret.value.sentiment_percentages[c].den > 0
              /\ ret.value.sentiment_percentages[c].num * ret.value.total_texts
                    = 100 * ret.value.sentiment_counts[c]
                          * ret.value.sentiment_percentages[c].den
        /\ LET sum == FractionSum(ret.value.sentiment_percentages,
                                  DOMAIN ret.value.sentiment_percentages)
           IN  sum.num = 100 * sum.den

C13_Witness ==
    /\ Done("get_sentiment_summary")
    /\ IsRecordCollection(call.df)
    /\ Len(call.df.rows) = 2
    /\ ret.raised = "none"
    /\ DOMAIN ret.value.sentiment_percentages = {"positivo", "negativo"}
    /\ ret.value.sentiment_percentages["positivo"].num * 2
          = 100 * ret.value.sentiment_percentages["positivo"].den

\* C14: for every non-empty collection of records, most_positive_text is the text
\* of the first record in input order whose polarity is the maximum, and
\* most_negative_text the text of the first record whose polarity is the minimum;
\* each is a single text value.
C14_ExtremeTexts ==
    (Done("get_sentiment_summary") /\ IsRecordCollection(call.df) /\ call.df.rows # <<>>) =>
        /\ ret.raised = "none"
        /\ ret.value.most_positive_text.kind = "str"
        /\ ret.value.most_negative_text.kind = "str"
        /\ ret.value.most_positive_text = call.df.rows[FirstMax(call.df.rows)].left.text
        /\ ret.value.most_negative_text = call.df.rows[FirstMin(call.df.rows)].left.text

\* the three comments after preprocess_text: lower-cased, punctuation and
\* stopwords removed
CleanedExample ==
    <<Str(<<"adorei", "produto", "excelente">>),
      Str(<<"produto", "péssimo", "detestei">>),
      Str(<<"produto", "chegou", "prazo">>)>>

ExpectedClasses == <<"positivo", "negativo", "neutro">>

\* the frame holds the three comments, the column analyzed being texts
IsExample(df, texts) ==
    /\ Len(df) = 3
    /\ \A i \in 1..3 :
          /\ df[i].label = i - 1
          /\ df[i].text = ExampleTexts[i]
          /\ df[i].processed_text = texts[i]

\* the analyzed frame of the three cleaned comments, classified as expected
IsExampleAnalysis(df) ==
    /\ df.classified
    /\ Len(df.rows) = 3
    /\ \A i \in 1..3 :
          /\ df.rows[i].left.present
          /\ df.rows[i].left.processed_text = CleanedExample[i]
          /\ df.rows[i].right.present
          /\ ClassAt(df.rows, i) = ExpectedClasses[i]

\* C15, as stated: analyzing "Adorei o produto, excelente!", "Produto péssimo,
\* detestei.", "O produto chegou no prazo." exactly as given, with a lexicon
\* holding 'adorei'/'excelente' as positive and 'péssimo'/'detestei' as negative,
\* yields positivo, negativo, neutro in that order (here for a baseline polarity
\* of 0 for each text).
C15_ExampleAsGiven ==
    (/\ Done("analyze_dataframe")
     /\ IsExample(call.df, ExampleTexts)
     /\ \A i \in 1..3 : call.blobs[i].polarity = 0) =>
        /\ {"adorei", "excelente"} \subseteq positive_words
        /\ {"péssimo", "detestei"} \subseteq negative_words
        /\ ret.raised = "none"
        /\ Len(ret.value.rows) = 3
        /\ \A i \in 1..3 :
              /\ ret.value.rows[i].right.present
              /\ ClassAt(ret.value.rows, i) = ExpectedClasses[i]

\* C15, amended: the three comments after preprocess_text ("adorei produto
\* excelente", "produto péssimo detestei", "produto chegou prazo"), each of a
\* baseline polarity within [-0.1, 0.1], are classified positivo, negativo,
\* neutro in that order by the built-in lexicon, which holds 'excelente' as
\* positive and 'péssimo' as negative and neither 'adorei' nor 'detestei'; the
\* summary of the three records has count 1 and percentage 100/3 for each class.
C15_ExampleCleaned ==
    /\ (/\ Done("analyze_dataframe")
        /\ IsExample(call.df, CleanedExample)
        /\ \A i \in 1..3 : call.blobs[i].polarity >= -10 /\ call.blobs[i].polarity <= 10) =>
          /\ "excelente" \in positive_words
          /\ "péssimo" \in negative_words
          /\ "adorei" \notin positive_words
          /\ "detestei" \notin negative_words
          /\ ret.raised = "none"
          /\ IsExampleAnalysis(Analyzed(ret.value.rows))
    /\ (Done("get_sentiment_summary") /\ IsExampleAnalysis(call.df)) =>
          /\ ret.raised = "none"
          /\ ret.value.total_texts = 3
          /\ DOMAIN ret.value.sentiment_counts = SentimentClasses
          /\ DOMAIN ret.value.sentiment_percentages = SentimentClasses
          /\ \A class \in SentimentClasses :
                /\ ret.value.sentiment_counts[class] = 1
                /\ 3 * ret.value.sentiment_percentages[class].num
                      = 100 * ret.value.sentiment_percentages[class].den

C15_Witness ==
    /\ Done("get_sentiment_summary")
    /\ IsExampleAnalysis(call.df)
    /\ \A i \in 1..3 : call.df.rows[i].left.text = ExampleTexts[i]
    /\ ret.raised = "none"
    /\ ret.value.sentiment_counts["negativo"] = 1

\* C16: the statistics of a summary are computed over all records whatever their
\* class: for a non-empty collection the count of polarity_stats (and of
\* subjectivity_stats) is total_texts, its min and max are the smallest and the
\* largest polarity of any record, and they are the polarities of the records
\* whose texts are most_negative_text and most_positive_text.
C16_StatsOverAllRecords ==
    (Done("get_sentiment_summary") /\ IsRecordCollection(call.df) /\ call.df.rows # <<>>) =>
        LET rows == call.df.rows
            n == Len(rows)
        IN  /\ ret.raised = "none"
            /\ ret.value.polarity_stats.count = ret.value.total_texts
            /\ ret.value.subjectivity_stats.count = ret.value.total_texts
            /\ ret.value.polarity_stats.min = [nan |-> FALSE,
                                               value |-> PolarityAt(rows, FirstMin(rows))]
            /\ ret.value.polarity_stats.max = [nan |-> FALSE,
                                               value |-> PolarityAt(rows, FirstMax(rows))]
            /\ \A i \in 1..n :
                  /\ ret.value.subjectivity_stats.min.value <= SubjectivityAt(rows, i)
                  /\ ret.value.subjectivity_stats.max.value >= SubjectivityAt(rows, i)
            /\ ret.value.most_positive_text \in
                  {rows[i].left.text : i \in {j \in 1..n :
                      PolarityAt(rows, j) = ret.value.polarity_stats.max.value}}
            /\ ret.value.most_negative_text \in
                  {rows[i].left.text : i \in {j \in 1..n :
                      PolarityAt(rows, j) = ret.value.polarity_stats.min.value}}

C18_UnclassifiedIsValueError ==
    (Done("get_sentiment_summary") /\ ~call.df.classified) =>
        /\ ret.raised = "ValueError"
        /\ ret.value = [none |-> TRUE]
        /\ ret.calls.value_counts = 0
        /\ ret.calls.describe = 0
        /\ ret.calls.idxmax = 0

C18_Witness ==
    /\ Done("get_sentiment_summary")
    /\ ~call.df.classified
    /\ Len(call.df.rows) = 2
    /\ ret.raised = "ValueError"

SummaryConsumers ==
    {"generate_insights", "generate_recommendations", "generate_html_report",
     "generate_summary_text", "print_final_summary"}

\* C19: every consumer of a summary (generate_insights, generate_recommendations,
\* generate_html_report, generate_summary_text, the final report of the dominant
\* sentiment) checks total_texts == 0 before it reads the dominant class, so the
\* summary of an empty collection is handled without raising.
C19_EmptySummaryIsHandled ==
    (pc = "done" /\ call.op \in SummaryConsumers /\ call.summary.total_texts = 0) =>
        ret.raised = "none"

ScoringCalls ==
    {"analyze_with_textblob", "analyze_with_vader", "classify_sentiment", "analyze_text"}

\* the record of a text from the lexicons as constructed, the secondary scorer
\* invoked first
RecordOf(available, text, blob, scores) ==
    LET vader_result ==
            analyze_with_vader(IF available = "True" THEN "SIA" ELSE "None", text, scores)
        textblob_result ==
            analyze_with_textblob(POSITIVE_WORDS, NEGATIVE_WORDS, text, blob)
    IN  [text |-> text,
         sentiment_class |-> classify_sentiment(textblob_result.value.polarity, 10),
         polarity |-> textblob_result.value.polarity,
         subjectivity |-> textblob_result.value.subjectivity,
         vader_compound |-> vader_result.value.compound,
         vader_pos |-> vader_result.value.pos,
         vader_neu |-> vader_result.value.neu,
         vader_neg |-> vader_result.value.neg]

C21_LexiconsDisjointAndFixed ==
    [][/\ Constructed' =>
             /\ positive_words' \cap negative_words' = {}
             /\ positive_words' = POSITIVE_WORDS
             /\ negative_words' = NEGATIVE_WORDS
       /\ Constructed => UNCHANGED <<positive_words, negative_words>>
       /\ CUSTOM_POSITIVE_WORDS \cap CUSTOM_NEGATIVE_WORDS = {}]_vars

C21_Witness ==
    /\ Done("analyze_with_textblob")
    /\ ret.calls.lexicon = 2
    /\ "bom" \in positive_words
    /\ "ruim" \in negative_words
    /\ positive_words \cap negative_words = {}

\* C22: in every frame analyze_dataframe returns (the frames of a
\* non-contiguous index included) every row has a sentiment_class among
\* positivo, negativo, neutro and a polarity that is not missing, so that the
\* sentiment_counts of its summary add up to total_texts.
C22_EveryRowClassified ==
    /\ (Done("analyze_dataframe") /\ ret.raised = "none") =>
          \A i \in 1..Len(ret.value.rows) :
             /\ ret.value.rows[i].right.present
             /\ ret.value.rows[i].right.scored.sentiment_class \in SentimentClasses
             /\ ret.value.rows[i].right.scored.polarity \in -100..100
    /\ (Done("get_sentiment_summary") /\ ret.raised = "none"
           /\ ret.value.total_texts > 0) =>
          FractionSum([c \in DOMAIN ret.value.sentiment_counts |->
                          [num |-> ret.value.sentiment_counts[c], den |-> 1]],
                      DOMAIN ret.value.sentiment_counts)
             = [num |-> ret.value.total_texts, den |-> 1]

\* C23: analyze_dataframe leaves the caller's frame as it was and returns a
\* frame of the same rows, each with its original text and processed_text,
\* to which the seven sentiment columns are added.
C23_OriginalColumnsKept ==
    (Done("analyze_dataframe") /\ ret.raised = "none") =>
        /\ call.df_after = call.df
        /\ Len(ret.value.rows) = Len(call.df)
        /\ \A i \in 1..Len(ret.value.rows) :
              /\ ret.value.rows[i].label = call.df[i].label
              /\ ret.value.rows[i].left.present
              /\ ret.value.rows[i].left.text = call.df[i].text
              /\ ret.value.rows[i].left.processed_text = call.df[i].processed_text
              /\ ret.value.rows[i].right.present
                    => DOMAIN ret.value.rows[i].right.scored =
                          {"sentiment_class", "polarity", "subjectivity",
                           "vader_compound", "vader_pos", "vader_neu", "vader_neg"}

\* C24: for a non-empty text whose baseline polarity is 0, analyze_text yields
\* 'positivo' iff the text has more positive than negative lexicon words,
\* 'negativo' iff more negative than positive, 'neutro' iff as many of each.
C24_BumpAloneDecides ==
    (/\ Done("analyze_text")
     /\ call.text.kind = "str"
     /\ Truthy(call.text)
     /\ call.blob.polarity = 0) =>
        LET pos_count == Hits(call.text, positive_words)
            neg_count == Hits(call.text, negative_words)
        IN  /\ ret.raised = "none"
            /\ (ret.value.sentiment_class = "positivo") <=> (pos_count > neg_count)
            /\ (ret.value.sentiment_class = "negativo") <=> (neg_count > pos_count)
            /\ (ret.value.sentiment_class = "neutro") <=> (pos_count = neg_count)

C24_Witness ==
    /\ Done("analyze_text")
    /\ call.text = Str(<<"Bom", "produto">>)
    /\ call.blob.polarity = 0
    /\ ret.value.polarity = LexiconBump
    /\ ret.value.sentiment_class = "positivo"

\* the five stages of run_complete_analysis, in the order it calls them
StageOrder == <<"collect", "preprocess", "analyze", "visualize", "report">>

IsPrefix(s, t) == Len(s) <= Len(t) /\ \A i \in 1..Len(s) : s[i] = t[i]

InRun == call.op = "run_complete_analysis"

\* the files a stage has written when it returns
StageFiles(stage) ==
    CASE stage = "collect" -> {"dados_brutos.csv"}
      [] stage = "preprocess" -> {"dados_processados.csv"}
      [] stage = "analyze" -> {"dados_analisados.csv"}
      [] stage = "visualize" -> FilesOf(CHART_FILES)
      [] stage = "report" -> FilesOf(REPORT_FILES)

\* C25: run_complete_analysis calls collect, preprocess, analyze, visualize,
\* report in this order, one stage per step and each on what the stage before
\* it returned; once a stage has raised no further stage is called; a file
\* once written stays, so that after a failure the files of the stages that
\* returned are all there.
C25_StagesInOrder ==
    [][InRun' =>
          /\ IsPrefix(call'.stages, StageOrder)
          /\ \A k \in 1..(Len(call'.stages) - 1) :
                StageFiles(call'.stages[k]) \subseteq call'.files
          /\ Len(call'.stages) > 1 => call'.df_raw # <<>>
          /\ Len(call'.stages) > 2 =>
                call'.df_processed = preprocess_dataframe(call'.df_raw).value.rows
          /\ Len(call'.stages) > 3 =>
                /\ call'.df_processed # <<>>
                /\ call'.df_analyzed =
                      analyze_dataframe(positive_words', negative_words', vader_analyzer',
                                        call'.df_processed, call'.blobs, call'.scores,
                                        call'.sorted).value.rows
          /\ Len(call'.stages) > 4 => call'.chart_files = CHART_FILES
          /\ InRun =>
                /\ call.files \subseteq call'.files
                /\ IsPrefix(call.stages, call'.stages)
                /\ Len(call'.stages) <= Len(call.stages) + 1
                /\ call'.stages # call.stages => pc = "running"
                /\ pc = "done" => call' = call]_vars

C25_Witness ==
    /\ Done("run_complete_analysis")
    /\ ~ret.value.success
    /\ ret.value.error = "KeyError"
    /\ call.stages = <<"collect", "preprocess", "analyze">>
    /\ call.df_raw = RawFrame(<<Str(<<"o">>)>>)
    /\ call.df_processed = <<>>
    /\ call.files = {"dados_brutos.csv", "dados_processados.csv"}

\* C26: run_complete_analysis raises nothing: it returns either success = True
\* with data, summary, report_file, chart_files and duration, the summary being
\* the summary of the data returned, after all five stages, or success = False
\* with the error and no other field.
C26_ResultIsSuccessOrError ==
    Done("run_complete_analysis") =>
        /\ ret.raised = "none"
        /\ ret.value.success =>
              /\ DOMAIN ret.value = {"success", "data", "summary", "report_file",
                                     "chart_files", "duration"}
              /\ call.stages = StageOrder
              /\ ret.value.data = call.df_analyzed
              /\ ret.value.summary.total_texts = Len(ret.value.data)
              /\ ret.value.summary = get_sentiment_summary(Analyzed(ret.value.data)).value
              /\ ret.value.report_file = REPORT_FILES[1]
              /\ ret.value.chart_files = CHART_FILES
        /\ ~ret.value.success =>
              /\ DOMAIN ret.value = {"success", "error"}
              /\ ret.value.error \in {"OSError", "KeyError", "ValueError", "TypeError",
                                      "AttributeError", "LookupError"}

C26_Witness ==
    /\ Done("run_complete_analysis")
    /\ ret.value.success
    /\ ~call.use_sample
    /\ call.df_raw = RawFrame(<<Str(<<"Bom">>), Str(<<"ruim">>)>>)
    /\ ret.value.summary.total_texts = 2
    /\ DOMAIN ret.value.summary.sentiment_counts = {"positivo", "negativo"}

\* C27: the data set collect_data returns is never empty: it is the sample data
\* when use_sample is set or no bearer token is given; Twitter is searched only
\* when use_sample is false and a token is given, and the sample data stands in
\* when the search finds no tweet or fails; collect_data raises only when the
\* raw data file cannot be written.
C27_CollectedDataIsNeverEmpty ==
    /\ Done("collect_data") =>
          LET token == call.bearer_token.kind = "str" /\ call.bearer_token.words # <<>>
              twitter == ~call.use_sample /\ token
              found == call.response.error = "none" /\ call.response.tweets # <<>>
          IN  /\ ret.raised # "none" => call.write # "ok" /\ ret.raised = call.write
              /\ ret.calls.search_tweets = IF twitter THEN 1 ELSE 0
              /\ ret.calls.collect_sample_data = IF twitter /\ found THEN 0 ELSE 1
              /\ ret.raised = "none" =>
                    /\ Len(ret.value.rows) > 0
                    /\ ret.value.rows = IF twitter /\ found
                                        THEN RawFrame(call.response.tweets)
                                        ELSE collect_sample_data
    /\ (InRun /\ Len(call.stages) > 1) => Len(call.df_raw) > 0

C27_Witness ==
    /\ Done("collect_data")
    /\ ~call.use_sample
    /\ call.bearer_token = Str(<<"token">>)
    /\ call.response.error = "TweepyException"
    /\ call.response.tweets # <<>>
    /\ ret.raised = "none"
    /\ ret.value.rows = collect_sample_data

\* C28: preprocess_dataframe leaves the caller's frame as it was and returns the
\* rows of it whose processed text is not empty, in their order and under
\* their index labels, each with its text and its processed text; a text that
\* is missing or not a str is cleaned to the empty string, the row dropped and
\* nothing raised.
C28_KeepsRowsOfNonEmptyText ==
    Done("preprocess_dataframe") =>
        LET rows == ret.value.rows
            at(label) == CHOOSE k \in 1..Len(call.df) : call.df[k].label = label
        IN  /\ ret.raised = "none"
            /\ call.df_after = call.df
            /\ \A i \in 1..Len(rows) :
                  /\ rows[i].label \in Labels(call.df)
                  /\ rows[i].text = call.df[at(rows[i].label)].text
                  /\ rows[i].text.kind = "str"
                  /\ rows[i].processed_text = preprocess_text(rows[i].text)
                  /\ rows[i].processed_text.kind = "str"
                  /\ rows[i].processed_text.words # <<>>
            /\ \A i, j \in 1..Len(rows) :
                  i < j => at(rows[i].label) < at(rows[j].label)
            /\ \A k \in 1..Len(call.df) :
                  /\ call.df[k].text.kind # "str" => call.df[k].label \notin Labels(rows)
                  /\ call.df[k].text = Str(<<"o">>) => call.df[k].label \notin Labels(rows)
                  /\ preprocess_text(call.df[k].text).words # <<>>
                        => call.df[k].label \in Labels(rows)

=============================================================================
